---- MODULE Spec2Model ----
(***************************************************************************)
(* Model of the account service of src/server.py: one SQLite table `users` *)
(* and one Flask cookie session per caller.                                *)
(*                                                                         *)
(* Python values.  A value that may be None is a sequence of length at     *)
(* most one: None is <<>>, the text "x" is <<"x">>, the integer 3 is <<3>>.*)
(* A request body (the dict `data`) is a function from the keys it holds   *)
(* to such values; a key that is absent is not in its DOMAIN.              *)
(***************************************************************************)
EXTENDS Integers, Sequences, FiniteSets, TLC

VARIABLES
    users,      \* the rows of table users (a set of records, one per row)
    seq,        \* sqlite_sequence of users: the largest id AUTOINCREMENT has given
    session,    \* session[c]: the value under "user_id" in caller c's session, or None
    req,        \* the request that has just been served, until its response is sent
    resp,       \* the response to req
    pc,         \* pc[c]: where caller c's request in flight stands
    local,      \* local[c]: the local variables of caller c's request in flight
    optKey      \* the group of further keys the request bodies of this behaviour use

vars == <<users, seq, session, req, resp, pc, local, optKey>>

(***************************************************************************)
(* Bounds of the model.                                                    *)
(***************************************************************************)
MaxUsers == 2

Callers == {"c1", "c2"}

None == <<>>

Some(v) == <<v>>

(* Python truthiness of a text value: None and "" are false. *)
(* Variant: a test for None alone, `is None`. *)
TruthyNotNone(v) == v # None

Truthy(v) == v # None /\ v # Some("")

(* Python truthiness of an integer value: None and 0 are false. *)
TruthyId(v) == v # None /\ v # Some(0)

(* data.get(k) *)
Get(data, k) == IF k \in DOMAIN data THEN data[k] ELSE None

(* The Python expression `a or b`. *)
PyOr(a, b) == IF Truthy(a) THEN a ELSE b

(* The seven text columns of the table, in the order of the update loop.   *)
Columns == <<"fio", "phone", "email", "cardNumber", "dob", "gender", "avatar">>

ColumnSet == {Columns[i] : i \in 1..Len(Columns)}

(***************************************************************************)
(* The storage layer: table users of init_db.                              *)
(***************************************************************************)

(* phone TEXT UNIQUE: a row other than `self` holds the same non-NULL      *)
(* phone.  SQLite never counts two NULLs as equal.                         *)
(* Variant: the column without UNIQUE. *)
UniqueNeverFails(rows, phone, self) == FALSE

UniqueFails(rows, phone, self) ==
    /\ phone # None
    /\ \E r \in rows : r.id # self /\ r.phone = phone

(* SELECT id FROM users WHERE phone = ?   (a NULL parameter matches no row) *)
(* Variant: a SELECT that finds no row. *)
SelectByPhoneNothing(rows, phone) == {}

SelectByPhone(rows, phone) ==
    {r \in rows : phone # None /\ r.phone = phone}

(* SELECT * FROM users WHERE fio = ? AND phone = ? *)
(* Variants: OR for AND; the phone alone; the name alone. *)
SelectByFioOrPhone(rows, fio, phone) ==
    {r \in rows : (fio # None /\ r.fio = fio) \/ (phone # None /\ r.phone = phone)}

SelectIgnoringFio(rows, fio, phone) ==
    {r \in rows : phone # None /\ r.phone = phone}

SelectIgnoringPhone(rows, fio, phone) ==
    {r \in rows : fio # None /\ r.fio = fio}

SelectByFioPhone(rows, fio, phone) ==
    {r \in rows : fio # None /\ r.fio = fio /\ phone # None /\ r.phone = phone}

(* SELECT id,fio,... FROM users WHERE id = ? *)
(* Variant: the SELECT without its WHERE. *)
SelectAnyId(rows, id) == rows

SelectById(rows, id) == {r \in rows : Some(r.id) = id}

(* cur.fetchone(): the first row of the result, or None.  Rows come in     *)
(* rowid order.                                                            *)
FetchOne(result) ==
    IF result = {} THEN None
    ELSE Some(CHOOSE r \in result : \A q \in result : r.id <= q.id)

(* The row INSERT INTO users (fio, phone, email, cardNumber, dob, gender)   *)
(* VALUES (?, ?, ?, ?, ?, ?) adds: AUTOINCREMENT gives it the id after the  *)
(* largest ever given, and avatar is not among the columns, so it is NULL.  *)
(* Variant: dob and gender in each other's place. *)
NewRowSwapped(s, fio, phone, email, card, dob, gender) ==
    [id |-> s + 1, fio |-> fio, phone |-> phone, email |-> email,
     cardNumber |-> card, dob |-> gender, gender |-> dob, avatar |-> None]

(* Variant: every row given the id 1, whatever the sequence holds. *)
NewRowFirstId(s, fio, phone, email, card, dob, gender) ==
    [id |-> 1, fio |-> fio, phone |-> phone, email |-> email,
     cardNumber |-> card, dob |-> dob, gender |-> gender, avatar |-> None]

NewRow(s, fio, phone, email, card, dob, gender) ==
    [id |-> s + 1, fio |-> fio, phone |-> phone, email |-> email,
     cardNumber |-> card, dob |-> dob, gender |-> gender, avatar |-> None]

(* UPDATE users SET k = ?, ... WHERE id = ? for the keys of `data` that are *)
(* columns: the row after the statement.                                   *)
(* Variant: every column set, the absent ones to NULL. *)
UpdatedRowAllColumns(r, data) ==
    [k \in DOMAIN r |-> IF k \in ColumnSet THEN Get(data, k) ELSE r[k]]

UpdatedRow(r, data) ==
    [k \in DOMAIN r |-> IF k \in ColumnSet /\ k \in DOMAIN data THEN data[k] ELSE r[k]]

UpdateRows(rows, data, id) ==
    {IF Some(r.id) = id THEN UpdatedRow(r, data) ELSE r : r \in rows}

(* The UPDATE raises sqlite3.IntegrityError: it would give the row a phone  *)
(* another row holds.                                                      *)
(* Variant: an UPDATE that no constraint stops. *)
UpdateNeverFails(rows, data, id) == FALSE

UpdateFails(rows, data, id) ==
    /\ "phone" \in DOMAIN data
    /\ \E r \in rows : Some(r.id) = id /\ UniqueFails(rows, data["phone"], r.id)

(***************************************************************************)
(* Responses.  error is "" on success; the texts stand for the messages    *)
(* of the handlers.                                                        *)
(***************************************************************************)
ErrRequired == "fio and phone are required"

ErrConflict == "phone already registered"

ErrCredentials == "invalid credentials or user not found"

ErrUnauthorized == "not authorized"

ErrNotFound == "user not found"

ErrNothing == "nothing to update"

ErrIntegrity == "sqlite3.IntegrityError"

Response(status, error, user_id, profile) ==
    [status |-> status, error |-> error, user_id |-> user_id, profile |-> profile]

NoResponse == Response(0, "", None, None)

Request(op, c, data) == [op |-> op, caller |-> c, data |-> data]

NoRequest == Request("", "", <<>>)

(***************************************************************************)
(* Request bodies.  Besides fio and phone, the requests of one behaviour   *)
(* use the further keys of one group, which the behaviour starts with      *)
(* (optKey): the optional fields of a registration; an empty cardNumber    *)
(* and its alias card in registrations, card (which an update does not     *)
(* know) in updates; or avatar, with "role", a key the service does not    *)
(* know, in updates.  A registration or a login may leave fio or phone out *)
(* or empty; an update sets fio to a name, and phone to a phone or "".     *)
(***************************************************************************)
Names == {Some("Ann"), Some("Bob")}

Phones == {Some(""), Some("+1000"), Some("+9999")}

(* The dicts that hold key k with a value of V, and the empty dict. *)
Field(k, V) == {<<>>} \cup {k :> v : v \in V}

(* fio and phone of a registration or a login: absent, empty or given. *)
FioPhoneBodies ==
    {f @@ p : f \in Field("fio", Names \cup {Some("")}), p \in Field("phone", Phones)}

(* fio and phone of an update: fio absent or a name. *)
NamePhoneBodies ==
    {f @@ p : f \in Field("fio", Names), p \in Field("phone", Phones)}

(* email, cardNumber, dob and gender, all four or none. *)
Details ==
    {<<>>, [email |-> Some("e"), cardNumber |-> Some("n"),
            dob |-> Some("d"), gender |-> Some("g")]}

(* fio and phone alone, of one name and of two phones or null: the bodies  *)
(* of the requests that interleave.                                        *)
PlainBodies ==
    {f @@ p : f \in Field("fio", {Some("Ann")}),
              p \in Field("phone", {None, Some("+1000"), Some("+9999")})}

OptKeys == {"email", "card", "avatar"}

RegisterDetailBodies == {d @@ o : d \in FioPhoneBodies, o \in Details}

RegisterCardBodies ==
    {d @@ a @@ b : d \in FioPhoneBodies,
                   a \in Field("cardNumber", {Some("")}),
                   b \in Field("card", {Some("y")})}

RegisterAvatarBodies ==
    {d @@ a : d \in FioPhoneBodies, a \in Field("avatar", {Some("a")})}

UpdateDetailBodies == {d @@ o : d \in NamePhoneBodies, o \in Details}

UpdateCardBodies ==
    {d @@ b : d \in NamePhoneBodies, b \in Field("card", {Some("y")})}

UpdateAvatarBodies ==
    {d @@ a @@ b : d \in NamePhoneBodies,
                   a \in Field("avatar", {Some("a")}),
                   b \in Field("role", {Some("admin")})}

RegisterBodies(k) ==
    CASE k = "email" -> RegisterDetailBodies
      [] k = "card" -> RegisterCardBodies
      [] k = "avatar" -> RegisterAvatarBodies
      [] OTHER -> PlainBodies

UpdateBodies(k) ==
    CASE k = "email" -> UpdateDetailBodies
      [] k = "card" -> UpdateCardBodies
      [] k = "avatar" -> UpdateAvatarBodies
      [] OTHER -> PlainBodies

LoginBodies(k) == IF k \in OptKeys THEN FioPhoneBodies ELSE PlainBodies

(***************************************************************************)
(* Initial state: init_db has created the empty table, no caller has a     *)
(* session cookie, no request is in flight.                                *)
(***************************************************************************)
NoLocals == [user_id |-> None, data |-> <<>>]

Start ==
    /\ users = {}
    /\ seq = 0
    /\ session = [c \in Callers |-> None]
    /\ req = NoRequest
    /\ resp = NoResponse
    /\ pc = [c \in Callers |-> "idle"]
    /\ local = [c \in Callers |-> NoLocals]

Init == Start /\ optKey \in OptKeys

(* The handler returns: the response to caller c's request is r. *)
Return(op, c, data, r) ==
    /\ req' = Request(op, c, data)
    /\ resp' = r

(* A handler starts on a request of caller c, who has none in flight; the  *)
(* response before has been sent.                                          *)
Ready(c) == pc[c] = "idle" /\ resp = NoResponse

(***************************************************************************)
(* api_register                                                            *)
(***************************************************************************)

(* Lines 64-69: the six values the handler reads from the body. *)
RegisterValues(data) ==
    [fio |-> Get(data, "fio"), phone |-> Get(data, "phone"),
     email |-> Get(data, "email"),
     card |-> PyOr(Get(data, "cardNumber"), Get(data, "card")),
     dob |-> Get(data, "dob"), gender |-> Get(data, "gender")]

(* Lines 71-79: the error the handler returns before it inserts, "" if none. *)
RegisterRefusal(rows, v) ==
    IF ~Truthy(v.fio) \/ ~Truthy(v.phone) THEN ErrRequired
    ELSE IF FetchOne(SelectByPhone(rows, v.phone)) # None THEN ErrConflict
    ELSE ""

(* Lines 80-92: the INSERT, the commit, the session and the response.  The *)
(* INSERT raises sqlite3.IntegrityError when the phone is taken; nothing   *)
(* catches it, and the request ends with status 500 and its session as it  *)
(* was.                                                                    *)
(* Variant: the session written before the INSERT, and kept when it fails. *)
RegisterSessionFirst(c, data) ==
    LET v == RegisterValues(data)
    IN  IF UniqueFails(users, v.phone, 0)
        THEN /\ Return("register", c, data, Response(500, ErrIntegrity, None, None))
             /\ session' = [session EXCEPT ![c] = Some(seq + 1)]
             /\ UNCHANGED <<users, seq>>
        ELSE /\ Cardinality(users) < MaxUsers
             /\ users' = users \cup
                    {NewRow(seq, v.fio, v.phone, v.email, v.card, v.dob, v.gender)}
             /\ seq' = seq + 1
             /\ session' = [session EXCEPT ![c] = Some(seq + 1)]
             /\ Return("register", c, data, Response(200, "", Some(seq + 1), None))

RegisterInsert(c, data) ==
    LET v == RegisterValues(data)
    IN  IF UniqueFails(users, v.phone, 0)
        THEN /\ Return("register", c, data, Response(500, ErrIntegrity, None, None))
             /\ UNCHANGED <<users, seq, session>>
        ELSE /\ Cardinality(users) < MaxUsers
             /\ users' = users \cup
                    {NewRow(seq, v.fio, v.phone, v.email, v.card, v.dob, v.gender)}
             /\ seq' = seq + 1
             /\ session' = [session EXCEPT ![c] = Some(seq + 1)]
             /\ Return("register", c, data, Response(200, "", Some(seq + 1), None))

(* Variant: session.clear() before the checks, so that a refusal leaves    *)
(* the caller without a session.                                           *)
RegisterClearsFirst(c, data) ==
    /\ Ready(c)
    /\ LET e == RegisterRefusal(users, RegisterValues(data))
       IN  IF e # ""
           THEN /\ Return("register", c, data, Response(400, e, None, None))
                /\ session' = [session EXCEPT ![c] = None]
                /\ UNCHANGED <<users, seq>>
           ELSE RegisterInsert(c, data)
    /\ UNCHANGED <<pc, local, optKey>>

(* The whole handler, served without another request in between. *)
api_register(c, data) ==
    /\ Ready(c)
    /\ LET e == RegisterRefusal(users, RegisterValues(data))
       IN  IF e # ""
           THEN /\ Return("register", c, data, Response(400, e, None, None))
                /\ UNCHANGED <<users, seq, session>>
           ELSE RegisterInsert(c, data)
    /\ UNCHANGED <<pc, local, optKey>>

(***************************************************************************)
(* api_login                                                               *)
(***************************************************************************)
(* Variant: one session that every caller shares. *)
LoginSharedSession(c, data) ==
    /\ Ready(c)
    /\ LET fio == Get(data, "fio")
           phone == Get(data, "phone")
           row == FetchOne(SelectByFioPhone(users, fio, phone))
       IN  IF ~Truthy(fio) \/ ~Truthy(phone)
           THEN /\ Return("login", c, data, Response(400, ErrRequired, None, None))
                /\ UNCHANGED session
           ELSE IF row = None
           THEN /\ Return("login", c, data, Response(401, ErrCredentials, None, None))
                /\ UNCHANGED session
           ELSE /\ session' = [d \in Callers |-> Some(row[1].id)]
                /\ Return("login", c, data, Response(200, "", Some(row[1].id), None))
    /\ UNCHANGED <<users, seq, pc, local, optKey>>

api_login(c, data) ==
    /\ Ready(c)
    /\ LET fio == Get(data, "fio")
           phone == Get(data, "phone")
           row == FetchOne(SelectByFioPhone(users, fio, phone))
       IN  IF ~Truthy(fio) \/ ~Truthy(phone)
           THEN /\ Return("login", c, data, Response(400, ErrRequired, None, None))
                /\ UNCHANGED session
           ELSE IF row = None
           THEN /\ Return("login", c, data, Response(401, ErrCredentials, None, None))
                /\ UNCHANGED session
           ELSE /\ session' = [session EXCEPT ![c] = Some(row[1].id)]
                /\ Return("login", c, data, Response(200, "", Some(row[1].id), None))
    /\ UNCHANGED <<users, seq, pc, local, optKey>>

(* Lines 96-114: the response of api_login to a body, over the rows the    *)
(* table holds when the SELECT runs.                                       *)
LoginResponse(rows, data) ==
    LET fio == Get(data, "fio")
        phone == Get(data, "phone")
        row == FetchOne(SelectByFioPhone(rows, fio, phone))
    IN  IF ~Truthy(fio) \/ ~Truthy(phone)
        THEN Response(400, ErrRequired, None, None)
        ELSE IF row = None
        THEN Response(401, ErrCredentials, None, None)
        ELSE Response(200, "", Some(row[1].id), None)

(***************************************************************************)
(* api_profile                                                             *)
(***************************************************************************)
ProfileResponse(rows, user_id) ==
    LET row == FetchOne(SelectById(rows, user_id))
    IN  IF ~TruthyId(user_id)
        THEN Response(401, ErrUnauthorized, None, None)
        ELSE IF row = None
        THEN Response(404, ErrNotFound, None, None)
        ELSE Response(200, "", None, row)

api_profile(c) ==
    /\ Ready(c)
    /\ Return("profile", c, <<>>, ProfileResponse(users, session[c]))
    /\ UNCHANGED <<users, seq, session, pc, local, optKey>>

(***************************************************************************)
(* api_profile_update                                                      *)
(***************************************************************************)

(* Lines 140-145: the columns the body holds (`fields`). *)
(* Variant: every key of the body taken for a column. *)
UpdateFieldsAnyKey(data) == DOMAIN data

UpdateFields(data) == {k \in ColumnSet : k \in DOMAIN data}

(* Lines 135-147: the response the handler returns before it writes, or    *)
(* NoResponse.                                                             *)
UpdateRefusal(user_id, data) ==
    IF ~TruthyId(user_id)
    THEN Response(401, ErrUnauthorized, None, None)
    ELSE IF UpdateFields(data) = {}
    THEN Response(400, ErrNothing, None, None)
    ELSE NoResponse

(* Lines 155-160: the SELECT after the commit, and the response.  dict(row) *)
(* of no row raises TypeError, and the request ends with status 500.        *)
UpdateResponse(rows, user_id) ==
    LET row == FetchOne(SelectById(rows, user_id))
    IN  IF row = None
        THEN Response(500, "TypeError", None, None)
        ELSE Response(200, "", None, row)

(* Variant: an UPDATE that, when the table rejects the phone, has written   *)
(* the other columns.                                                      *)
UpdateWritesBeforeFailing(c, data) ==
    /\ Ready(c)
    /\ LET user_id == session[c]
           r == UpdateRefusal(user_id, data)
           others == [k \in DOMAIN data \ {"phone"} |-> data[k]]
       IN  IF r # NoResponse
           THEN /\ Return("update", c, data, r)
                /\ UNCHANGED users
           ELSE IF UpdateFails(users, data, user_id)
           THEN /\ Return("update", c, data, Response(500, ErrIntegrity, None, None))
                /\ users' = UpdateRows(users, others, user_id)
           ELSE /\ users' = UpdateRows(users, data, user_id)
                /\ Return("update", c, data, UpdateResponse(users', user_id))
    /\ UNCHANGED <<seq, session, pc, local, optKey>>

api_profile_update(c, data) ==
    /\ Ready(c)
    /\ LET user_id == session[c]
           r == UpdateRefusal(user_id, data)
       IN  IF r # NoResponse
           THEN /\ Return("update", c, data, r)
                /\ UNCHANGED users
           ELSE IF UpdateFails(users, data, user_id)
           THEN /\ Return("update", c, data, Response(500, ErrIntegrity, None, None))
                /\ UNCHANGED users
           ELSE /\ users' = UpdateRows(users, data, user_id)
                /\ Return("update", c, data, UpdateResponse(users', user_id))
    /\ UNCHANGED <<seq, session, pc, local, optKey>>

(***************************************************************************)
(* api_logout                                                              *)
(***************************************************************************)
(* Variant: the handler without session.clear(). *)
LogoutKeepsSession(c) ==
    /\ Ready(c)
    /\ UNCHANGED session
    /\ Return("logout", c, <<>>, Response(200, "", None, None))
    /\ UNCHANGED <<users, seq, pc, local, optKey>>

api_logout(c) ==
    /\ Ready(c)
    /\ session' = [session EXCEPT ![c] = None]
    /\ Return("logout", c, <<>>, Response(200, "", None, None))
    /\ UNCHANGED <<users, seq, pc, local, optKey>>

(***************************************************************************)
(* The service with every request served as a whole.                       *)
(***************************************************************************)
Register ==
    \E c \in Callers : \E data \in RegisterBodies(optKey) : api_register(c, data)

Login == \E c \in Callers : \E data \in LoginBodies(optKey) : api_login(c, data)

Profile == \E c \in Callers : api_profile(c)

ProfileUpdate ==
    \E c \in Callers : \E data \in UpdateBodies(optKey) : api_profile_update(c, data)

Logout == \E c \in Callers : api_logout(c)

(* The response goes back to the caller; the next request is served after. *)
Reply ==
    /\ resp # NoResponse
    /\ req' = NoRequest
    /\ resp' = NoResponse
    /\ UNCHANGED <<users, seq, session, pc, local, optKey>>

Next == Register \/ Login \/ Profile \/ ProfileUpdate \/ Logout \/ Reply

Spec == Init /\ [][Next]_vars

(***************************************************************************)
(* The service with requests that interleave.  A request touches the table *)
(* in statements that run one at a time (SQLite serialises them), and      *)
(* another request may run between two of them: api_register between its   *)
(* SELECT and its INSERT with commit, api_profile_update between its       *)
(* UPDATE with commit and its SELECT.  The other handlers make one         *)
(* statement or none.                                                      *)
(***************************************************************************)

(* api_register up to the SELECT, lines 63-79. *)
RegisterSelect(c, data) ==
    /\ Ready(c)
    /\ LET e == RegisterRefusal(users, RegisterValues(data))
       IN  IF e # ""
           THEN /\ Return("register", c, data, Response(400, e, None, None))
                /\ UNCHANGED <<pc, local>>
           ELSE /\ pc' = [pc EXCEPT ![c] = "insert"]
                /\ local' = [local EXCEPT ![c] = [user_id |-> None, data |-> data]]
                /\ UNCHANGED <<req, resp>>
    /\ UNCHANGED <<users, seq, session, optKey>>

(* api_register from the INSERT on, lines 80-92. *)
RegisterCommit(c) ==
    /\ pc[c] = "insert" /\ resp = NoResponse
    /\ RegisterInsert(c, local[c].data)
    /\ pc' = [pc EXCEPT ![c] = "idle"]
    /\ local' = [local EXCEPT ![c] = NoLocals]
    /\ UNCHANGED optKey

(* api_profile_update up to the commit, lines 135-154. *)
UpdateCommit(c, data) ==
    /\ Ready(c)
    /\ LET user_id == session[c]
           r == UpdateRefusal(user_id, data)
       IN  IF r # NoResponse
           THEN /\ Return("update", c, data, r)
                /\ UNCHANGED <<users, pc, local>>
           ELSE IF UpdateFails(users, data, user_id)
           THEN /\ Return("update", c, data, Response(500, ErrIntegrity, None, None))
                /\ UNCHANGED <<users, pc, local>>
           ELSE /\ users' = UpdateRows(users, data, user_id)
                /\ pc' = [pc EXCEPT ![c] = "select"]
                /\ local' = [local EXCEPT ![c] = [user_id |-> user_id, data |-> data]]
                /\ UNCHANGED <<req, resp>>
    /\ UNCHANGED <<seq, session, optKey>>

(* api_profile_update from the SELECT on, lines 155-160. *)
UpdateSelect(c) ==
    /\ pc[c] = "select" /\ resp = NoResponse
    /\ Return("update", c, local[c].data, UpdateResponse(users, local[c].user_id))
    /\ pc' = [pc EXCEPT ![c] = "idle"]
    /\ local' = [local EXCEPT ![c] = NoLocals]
    /\ UNCHANGED <<users, seq, session, optKey>>

RegisterBegin ==
    \E c \in Callers : \E data \in RegisterBodies(optKey) : RegisterSelect(c, data)

RegisterEnd == \E c \in Callers : RegisterCommit(c)

UpdateBegin ==
    \E c \in Callers : \E data \in UpdateBodies(optKey) : UpdateCommit(c, data)

UpdateEnd == \E c \in Callers : UpdateSelect(c)

InitConc == Start /\ optKey = "none"

NextConc ==
    \/ RegisterBegin \/ RegisterEnd \/ UpdateBegin \/ UpdateEnd
    \/ Login \/ Profile \/ Logout \/ Reply

SpecConc == InitConc /\ [][NextConc]_vars

(***************************************************************************)
(* Properties.  A step that serves a request leaves the request in req'    *)
(* and its response in resp'; users and session are the table and the      *)
(* sessions before the request, users' and session' after it.              *)
(***************************************************************************)

Supplied(data, k) == k \in DOMAIN data

Empty(v) == v = None \/ v = Some("")

Holds(rows, phone) == \E r \in rows : r.phone = phone

Served(op) == req'.op = op

(* C1, as stated: in every reachable state, whatever the interleaving of   *)
(* register and updateProfile requests, no two distinct rows hold the same *)
(* phone.                                                                  *)
C1_PhoneUnique ==
    \A r1 \in users : \A r2 \in users : r1 # r2 => r1.phone # r2.phone

(* C1, amended: in every reachable state, whatever the interleaving, no    *)
(* two distinct rows hold the same phone unless that phone is NULL.        *)
C1_NonNullPhoneUnique ==
    \A r1 \in users : \A r2 \in users :
        (r1 # r2 /\ r1.phone # None) => r1.phone # r2.phone

(* Two registrations of one phone raced, and the table holds two rows.     *)
C1_Witness ==
    /\ Cardinality(users) = 2
    /\ \A r \in users : r.phone # None
    /\ req.op = "register" /\ resp.status = 500

(* C2, as stated: register with non-empty fio and phone, the phone held by *)
(* no row, succeeds: one row is added that holds the supplied fields, the  *)
(* fields not supplied and avatar NULL; the response carries its id, and   *)
(* the caller's session holds that id afterwards.                          *)
C2_RegisterStoresSupplied ==
    [][( /\ Served("register")
         /\ ~Empty(Get(req'.data, "fio")) /\ ~Empty(Get(req'.data, "phone"))
         /\ ~Holds(users, Get(req'.data, "phone")) )
       => \E row \in users' :
            /\ row \notin users /\ users' = users \cup {row}
            /\ \A r \in users : r.id # row.id
            /\ \A k \in {"fio", "phone", "email", "cardNumber", "dob", "gender"} :
                   row[k] = Get(req'.data, k)
            /\ row.avatar = None
            /\ resp'.status = 200 /\ resp'.user_id = Some(row.id)
            /\ session' = [session EXCEPT ![req'.caller] = Some(row.id)]
      ]_vars

(* C2, amended: as C2, but the row's cardNumber is the supplied cardNumber *)
(* when that is non-empty, and otherwise the value supplied under the key  *)
(* card, NULL when there is none.                                          *)
C2_RegisterStoresSuppliedOrCard ==
    [][( /\ Served("register")
         /\ ~Empty(Get(req'.data, "fio")) /\ ~Empty(Get(req'.data, "phone"))
         /\ ~Holds(users, Get(req'.data, "phone")) )
       => \E row \in users' :
            /\ row \notin users /\ users' = users \cup {row}
            /\ \A r \in users : r.id # row.id
            /\ \A k \in {"fio", "phone", "email", "dob", "gender"} :
                   row[k] = Get(req'.data, k)
            /\ row.cardNumber =
                   IF ~Empty(Get(req'.data, "cardNumber"))
                   THEN req'.data["cardNumber"]
                   ELSE Get(req'.data, "card")
            /\ row.avatar = None
            /\ resp'.status = 200 /\ resp'.user_id = Some(row.id)
            /\ session' = [session EXCEPT ![req'.caller] = Some(row.id)]
      ]_vars

(* A caller has registered as the second user, with a card number given    *)
(* under the key card, and its session holds the new id.                   *)
C2_Witness ==
    /\ req.op = "register" /\ resp.status = 200 /\ resp.user_id = Some(2)
    /\ Supplied(req.data, "card")
    /\ session[req.caller] = Some(2)
    /\ \E r \in users : r.id = 2 /\ r.cardNumber = Some("y")

(* C3, as stated: register with non-empty fio and a phone that a row holds *)
(* fails with the conflict error, status 400, and the table stays as it    *)
(* was.                                                                    *)
C3_HeldPhoneConflicts ==
    [][( /\ Served("register")
         /\ ~Empty(Get(req'.data, "fio"))
         /\ Supplied(req'.data, "phone") /\ req'.data["phone"] # None
         /\ Holds(users, req'.data["phone"]) )
       => /\ resp'.status = 400 /\ resp'.error = ErrConflict
          /\ users' = users
      ]_vars

(* C3, amended: register with non-empty fio and a non-empty phone that a   *)
(* row holds fails with the conflict error, status 400, and the table      *)
(* stays as it was.                                                        *)
C3_HeldNonEmptyPhoneConflicts ==
    [][( /\ Served("register")
         /\ ~Empty(Get(req'.data, "fio")) /\ ~Empty(Get(req'.data, "phone"))
         /\ Holds(users, req'.data["phone"]) )
       => /\ resp'.status = 400 /\ resp'.error = ErrConflict
          /\ users' = users
      ]_vars

(* A registration was refused for its phone, whatever its other fields.    *)
C3_Witness ==
    /\ req.op = "register" /\ resp.status = 400 /\ resp.error = ErrConflict
    /\ Supplied(req.data, "email")
    /\ \E r \in users : r.phone = req.data["phone"] /\ r.fio # req.data["fio"]

(* C4: when two registrations of one phone interleave, the one that        *)
(* inserts second ends with the conflict error, status 400, and adds no    *)
(* row.                                                                    *)
C4_SecondWriterConflicts ==
    [][\A c \in Callers :
        ( /\ pc[c] = "insert" /\ pc'[c] = "idle"
          /\ Holds(users, Get(local[c].data, "phone")) )
        => /\ resp'.status = 400 /\ resp'.error = ErrConflict
           /\ users' = users
      ]_vars

(* C5: register or login with fio or phone missing or empty fails with the *)
(* validation error, status 400, adds no row and leaves every session as   *)
(* it was.                                                                 *)
C5_MissingFieldsRefused ==
    [][( /\ Served("register") \/ Served("login")
         /\ Empty(Get(req'.data, "fio")) \/ Empty(Get(req'.data, "phone")) )
       => /\ resp'.status = 400 /\ resp'.error = ErrRequired
          /\ users' = users /\ session' = session
      ]_vars

(* A login with an empty phone was refused although a row holds the name   *)
(* and the empty phone.                                                    *)
C5_Witness ==
    /\ req.op = "login" /\ resp.status = 400 /\ resp.error = ErrRequired
    /\ Get(req.data, "phone") = Some("")
    /\ \E r \in users : r.fio = Get(req.data, "fio") /\ r.phone = Some("")

(* The rows whose stored fio and phone are the ones a login body holds. *)
Matching(rows, data) ==
    {r \in rows : /\ Supplied(data, "fio") /\ r.fio = data["fio"]
                  /\ Supplied(data, "phone") /\ r.phone = data["phone"]}

(* C6, as stated: login with the stored fio and the stored phone of a row, *)
(* whatever updateProfile made of them, returns that row's id and leaves   *)
(* it in the caller's session.                                             *)
C6_StoredPairLogsIn ==
    [][Served("login") =>
        \A r \in Matching(users, req'.data) :
            /\ resp'.status = 200 /\ resp'.user_id = Some(r.id)
            /\ session' = [session EXCEPT ![req'.caller] = Some(r.id)]
      ]_vars

(* C6, amended: login with the stored fio and the stored phone of a row,   *)
(* both non-empty, whatever updateProfile made of them, returns that row's *)
(* id and leaves it in the caller's session.                               *)
C6_StoredNonEmptyPairLogsIn ==
    [][Served("login") =>
        \A r \in Matching(users, req'.data) :
            (~Empty(r.fio) /\ ~Empty(r.phone)) =>
                /\ resp'.status = 200 /\ resp'.user_id = Some(r.id)
                /\ session' = [session EXCEPT ![req'.caller] = Some(r.id)]
      ]_vars

(* A caller has logged in as the second user, a row that updateProfile has *)
(* written (only an update sets avatar), while another row holds the same  *)
(* name.                                                                   *)
C6_Witness ==
    /\ req.op = "login" /\ resp.status = 200 /\ resp.user_id = Some(2)
    /\ session[req.caller] = Some(2)
    /\ \E r \in users : r.id = 2 /\ r.avatar # None /\ r.fio = req.data["fio"]
    /\ \E r \in users : r.id = 1 /\ r.fio = req.data["fio"]

(* C7: login with non-empty fio and phone that no single row holds both    *)
(* fails with the authentication error, status 401, and leaves every       *)
(* session as it was.                                                      *)
C7_MismatchRefused ==
    [][( /\ Served("login")
         /\ ~Empty(Get(req'.data, "fio")) /\ ~Empty(Get(req'.data, "phone"))
         /\ Matching(users, req'.data) = {} )
       => /\ resp'.status = 401 /\ resp'.error = ErrCredentials
          /\ resp'.user_id = None
          /\ session' = session /\ users' = users
      ]_vars

(* A login was refused whose name one row holds and whose phone another    *)
(* row holds.                                                              *)
C7_Witness ==
    /\ req.op = "login" /\ resp.status = 401 /\ resp.error = ErrCredentials
    /\ \E r1 \in users : \E r2 \in users :
           /\ r1.fio = req.data["fio"] /\ r1.phone # req.data["phone"]
           /\ r2.phone = req.data["phone"] /\ r2.fio # req.data["fio"]

(* C8: getProfile by a caller without a user id in its session fails with  *)
(* status 401; by a caller whose session holds id u it returns the stored  *)
(* fields of the row with id u and of no other.                            *)
C8_ProfileIsOwnRow ==
    [][Served("profile") =>
        /\ users' = users /\ session' = session
        /\ IF session[req'.caller] = None
           THEN resp'.status = 401 /\ resp'.error = ErrUnauthorized
                /\ resp'.profile = None
           ELSE \E r \in users :
                    /\ Some(r.id) = session[req'.caller]
                    /\ resp'.status = 200 /\ resp'.profile = Some(r)
      ]_vars

(* The second user has read its profile while the table holds two rows.    *)
C8_Witness ==
    /\ req.op = "profile" /\ resp.status = 200
    /\ session[req.caller] = Some(2)
    /\ Cardinality(users) = 2
    /\ resp.profile[1].id = 2

(* The columns the specification names as the fields of an update. *)
Recognized == {"fio", "phone", "email", "cardNumber", "dob", "gender", "avatar"}

(* C9: a successful updateProfile by a caller whose session holds id u     *)
(* sets, in the row with id u, the supplied recognized fields to the       *)
(* supplied values and nothing else; the other rows and the sessions stay  *)
(* as they were, and getProfile by the caller then returns the new row.    *)
C9_UpdateWritesSuppliedOnly ==
    [][(Served("update") /\ resp'.status = 200) =>
        \E old \in users : \E new \in users' :
            /\ Some(old.id) = session[req'.caller]
            /\ new.id = old.id
            /\ \A k \in Recognized :
                   new[k] = IF Supplied(req'.data, k) THEN req'.data[k] ELSE old[k]
            /\ users' \ {new} = users \ {old}
            /\ session' = session
            /\ ProfileResponse(users', session'[req'.caller]).profile = Some(new)
      ]_vars

(* The second user has set its avatar and nothing else, and the table      *)
(* holds another row.                                                      *)
C9_Witness ==
    /\ req.op = "update" /\ resp.status = 200
    /\ DOMAIN req.data = {"avatar"}
    /\ session[req.caller] = Some(2)
    /\ \E r \in users : r.id = 2 /\ r.avatar = Some("a") /\ r.fio = Some("Bob")
    /\ \E r \in users : r.id = 1 /\ r.avatar = None

(* C10: updateProfile by a caller with a session and with no recognized    *)
(* field fails with "nothing to update", status 400; by a caller without a *)
(* session it fails with status 401, whatever the fields; neither changes  *)
(* a row or a session.                                                     *)
C10_UpdateRefusals ==
    [][Served("update") =>
        /\ ( session[req'.caller] # None /\ DOMAIN req'.data \cap Recognized = {} )
           => /\ resp'.status = 400 /\ resp'.error = ErrNothing
              /\ users' = users /\ session' = session
        /\ session[req'.caller] = None
           => /\ resp'.status = 401 /\ resp'.error = ErrUnauthorized
              /\ users' = users /\ session' = session
      ]_vars

(* An update with the unknown key role alone was refused for a caller with *)
(* a session.                                                              *)
C10_Witness ==
    /\ req.op = "update" /\ resp.status = 400 /\ resp.error = ErrNothing
    /\ DOMAIN req.data = {"role"}
    /\ session[req.caller] # None

(* C11: logout always succeeds and leaves the caller's session without a   *)
(* user id, whether it held one or not; a session without a user id gets   *)
(* one only by its own caller's successful register or login; and          *)
(* getProfile by a caller whose session holds none fails with status 401.  *)
(* So from a logout to the caller's next successful login or registration  *)
(* every getProfile of the caller fails unauthenticated.                   *)
C11_LoggedOutUntilLogin ==
    [][/\ Served("logout") =>
            /\ resp'.status = 200 /\ resp'.error = ""
            /\ session' = [session EXCEPT ![req'.caller] = None]
            /\ users' = users
       /\ \A c \in Callers :
            (session[c] = None /\ session'[c] # None) =>
                /\ req'.caller = c /\ req'.op \in {"register", "login"}
                /\ resp'.status = 200 /\ resp'.user_id = session'[c]
       /\ (Served("profile") /\ session[req'.caller] = None) =>
            /\ resp'.status = 401 /\ resp'.error = ErrUnauthorized
            /\ resp'.profile = None
      ]_vars

(* The table holds rows, every caller has logged out or never logged in,   *)
(* and a getProfile has failed unauthenticated.                            *)
C11_Witness ==
    /\ req.op = "profile" /\ resp.status = 401
    /\ users # {}
    /\ \A c \in Callers : session[c] = None

(* An update is served for a caller with a session, and the phone it       *)
(* supplies is the phone of a row of another user.                         *)
PhoneOfAnother ==
    /\ Served("update")
    /\ session[req'.caller] # None
    /\ Supplied(req'.data, "phone") /\ req'.data["phone"] # None
    /\ \E r \in users : Some(r.id) # session[req'.caller]
                        /\ r.phone = req'.data["phone"]

C13_WritesAreWhole ==
    [][/\ \/ users' = users
          \/ /\ Served("register") /\ resp'.status = 200
             /\ \E row \in users' :
                    /\ row \notin users /\ users' = users \cup {row}
                    /\ \A k \in {"fio", "phone", "email", "dob", "gender"} :
                           row[k] = Get(req'.data, k)
                    /\ row.cardNumber \in
                           {Get(req'.data, "cardNumber"), Get(req'.data, "card")}
                    /\ ProfileResponse(users', Some(row.id)).profile = Some(row)
          \/ /\ Served("update") /\ resp'.status = 200
             /\ \E old \in users : \E new \in users' :
                    /\ new.id = old.id
                    /\ users' \ {new} = users \ {old}
                    /\ \A k \in Recognized :
                           new[k] = IF Supplied(req'.data, k)
                                    THEN req'.data[k] ELSE old[k]
                    /\ ProfileResponse(users', Some(new.id)).profile = Some(new)
       /\ (req'.op \in {"register", "update"} /\ resp'.status # 200)
            => users' = users
      ]_vars

(* The table rejected the phone of an update that supplied six columns,    *)
(* and the row holds none of them.                                         *)
C13_Witness ==
    /\ req.op = "update" /\ resp.status = 500 /\ resp.error = ErrIntegrity
    /\ {"fio", "phone", "email", "dob"} \subseteq DOMAIN req.data
    /\ \E r \in users :
           /\ Some(r.id) = session[req.caller]
           /\ \A k \in DOMAIN req.data : r[k] # req.data[k]

(* The ids of the rows of a table. *)
Ids(rows) == {r.id : r \in rows}

(* C14: across every step the ids of the table only grow and each stays    *)
(* the id of one row; a successful registration adds one id, which no row  *)
(* held before and which the response carries; no other step adds or       *)
(* removes an id, so no row changes its id and none is removed.            *)
C14_IdsOnlyGrow ==
    [][/\ Ids(users) \subseteq Ids(users')
       /\ Cardinality(users') = Cardinality(Ids(users'))
       /\ IF Served("register") /\ resp'.status = 200
          THEN \E row \in users' :
                   /\ resp'.user_id = Some(row.id)
                   /\ row.id \notin Ids(users)
                   /\ Ids(users') = Ids(users) \cup {row.id}
          ELSE Ids(users') = Ids(users)
      ]_vars

(* The second registration got id 2 after the first row had been updated,  *)
(* and the first row still has id 1.                                       *)
C14_Witness ==
    /\ req.op = "register" /\ resp.status = 200 /\ resp.user_id = Some(2)
    /\ Ids(users) = {1, 2}
    /\ \E r \in users : r.id = 1 /\ r.avatar # None

(* C15: whatever requests interleave, a step changes the session of a      *)
(* caller only when it ends a request of that caller: a register or a      *)
(* login that succeeds, which leaves the id of the response, the id of a   *)
(* row, in place of what the session held, or a logout, which leaves none. *)
C15_SessionPerCaller ==
    [][\A c \in Callers :
        session'[c] # session[c] =>
            /\ req'.caller = c
            /\ \/ /\ req'.op \in {"register", "login"}
                  /\ resp'.status = 200
                  /\ session'[c] = resp'.user_id
                  /\ \E r \in users' : Some(r.id) = session'[c]
               \/ /\ req'.op = "logout"
                  /\ session'[c] = None
            /\ \A d \in Callers \ {c} : session'[d] = session[d]
      ]_vars

(* A caller has logged in as the first user while an update of the other   *)
(* caller, whose session holds the second user, is between its write and   *)
(* its read.                                                               *)
C15_Witness ==
    /\ req.op = "login" /\ resp.status = 200
    /\ session[req.caller] = Some(1)
    /\ \E d \in Callers \ {req.caller} :
           session[d] = Some(2) /\ pc[d] = "select"

(* C16: the profile a successful updateProfile returns holds, in every     *)
(* recognized field the request supplied, the value it supplied, also      *)
(* when the UPDATE and the SELECT of the request are separate steps and    *)
(* another caller of the same user updates between them.                   *)
C16_ReturnsOwnUpdate ==
    [][(Served("update") /\ resp'.status = 200) =>
        \A k \in Recognized \cap DOMAIN req'.data :
            resp'.profile[1][k] = req'.data[k]
      ]_vars

(* C17: in every reachable state a session that holds a user id holds the  *)
(* id of a row of the table, and so does an update in flight; a getProfile *)
(* with a session has not failed with status 404, and an updateProfile     *)
(* with a session has found its row to read back.                          *)
C17_SessionRowExists ==
    /\ \A c \in Callers :
           /\ session[c] # None => \E r \in users : Some(r.id) = session[c]
           /\ pc[c] = "select" => \E r \in users : Some(r.id) = local[c].user_id
    /\ req.op = "profile" =>
           /\ resp.status # 404
           /\ session[req.caller] # None => resp.status = 200
    /\ req.op = "update" =>
           /\ resp.error # "TypeError"
           /\ resp.status = 200 => resp.profile # None

(* Both callers hold a session, the table holds two rows, and an update of *)
(* the second user has read its row back.                                  *)
C17_Witness ==
    /\ req.op = "update" /\ resp.status = 200
    /\ resp.profile[1].id = 2
    /\ session[req.caller] = Some(2)
    /\ \A c \in Callers : session[c] # None
    /\ Cardinality(users) = 2

(* C18: when a caller whose session holds id u is refused a register       *)
(* (missing field or phone taken), a login (missing field or no such       *)
(* user) or an updateProfile (nothing to update), its session holds u      *)
(* afterwards, no session and no row has changed, and a getProfile of the  *)
(* caller then returns the row with id u.                                  *)
C18_RefusalKeepsSession ==
    [][( /\ req'.op \in {"register", "login", "update"}
         /\ resp'.status \in {400, 401}
         /\ session[req'.caller] # None )
       => /\ session' = session /\ users' = users
          /\ \E r \in users' :
                 /\ Some(r.id) = session[req'.caller]
                 /\ ProfileResponse(users', session'[req'.caller])
                        = Response(200, "", None, Some(r))
      ]_vars

(* The second user was refused a registration with the phone of the first, *)
(* and its session still holds its id.                                     *)
C18_Witness ==
    /\ req.op = "register" /\ resp.status = 400 /\ resp.error = ErrConflict
    /\ session[req.caller] = Some(2)
    /\ \E r \in users : r.id = 1 /\ r.phone = req.data["phone"]

(* The body of a login with the fio and the phone of a row. *)
Credentials(r) == [fio |-> r.fio, phone |-> r.phone]

(* A successful update has changed fio or phone of the row from old to new, *)
(* and what it changed is not empty.                                       *)
ChangedCredentials(old, new) ==
    /\ Served("update") /\ resp'.status = 200
    /\ old \in users /\ new \in users'
    /\ Some(old.id) = session[req'.caller] /\ new.id = old.id
    /\ new.fio # old.fio \/ new.phone # old.phone
    /\ new.fio # old.fio => ~Empty(new.fio)
    /\ new.phone # old.phone => ~Empty(new.phone)

(* C19, as stated: a login answers from the rows the table holds when it   *)
(* is served; and once a successful updateProfile has changed fio or phone *)
(* of a row to a new value that is not empty, a login with the fio and     *)
(* phone the row held fails with status 401, and a login with the ones it  *)
(* holds succeeds with the id of the row.                                  *)
C19_LoginFollowsUpdate ==
    [][/\ Served("login") => resp' = LoginResponse(users, req'.data)
       /\ \A old \in users : \A new \in users' :
            ChangedCredentials(old, new) =>
                /\ LoginResponse(users', Credentials(old))
                       = Response(401, ErrCredentials, None, None)
                /\ LoginResponse(users', Credentials(new))
                       = Response(200, "", Some(old.id), None)
      ]_vars

(* C19, amended: as C19, for a row whose fio and phone are not empty, both *)
(* before the update and after it.                                         *)
C19_LoginFollowsNonEmptyUpdate ==
    [][/\ Served("login") => resp' = LoginResponse(users, req'.data)
       /\ \A old \in users : \A new \in users' :
            ( /\ ChangedCredentials(old, new)
              /\ ~Empty(old.fio) /\ ~Empty(old.phone)
              /\ ~Empty(new.fio) /\ ~Empty(new.phone) ) =>
                /\ LoginResponse(users', Credentials(old))
                       = Response(401, ErrCredentials, None, None)
                /\ LoginResponse(users', Credentials(new))
                       = Response(200, "", Some(old.id), None)
      ]_vars

(* A caller has logged in as the first user with a name and a phone that   *)
(* an update has written to its row (only an update sets avatar), while    *)
(* the second user holds the other name and the other phone.               *)
C19_Witness ==
    /\ req.op = "login" /\ resp.status = 200 /\ resp.user_id = Some(1)
    /\ req.data = [fio |-> Some("Bob"), phone |-> Some("+9999")]
    /\ \E r \in users : r.id = 1 /\ r.avatar # None
                        /\ Credentials(r) = req.data
    /\ \E r \in users : r.id = 2 /\ r.fio = Some("Ann")
                        /\ r.phone = Some("+1000")

====
